---- MODULE Spec2Model ----
(***************************************************************************)
(* Model of gRPC/axum-tonic: one process that serves the Greeter gRPC      *)
(* service (tonic) and one plain HTTP route (axum) from a single router    *)
(* bound to one address.                                                   *)
(*                                                                         *)
(* Text is modelled as sequences of one-character strings so that          *)
(* format!("Hello {}!", name) is computed, not assumed.  A URI path is the *)
(* sequence of its segments: "/" is << >>, "/a/b" is <<"a", "b">>.         *)
(***************************************************************************)
EXTENDS Naturals, Sequences, FiniteSets

\* ---------------------------------------------------------------- bounds
MaxConn == 2        \* requests that can be in flight at the same time
MaxNameLen == 1     \* longest HelloRequest.name that is enumerated
MaxLogged == 2      \* lines of "Got a request" after which no request is accepted

Chars == {"A", "B"}

RECURSIVE SeqsUpTo(_)
SeqsUpTo(n) ==
    IF n = 0 THEN {<< >>}
    ELSE SeqsUpTo(n - 1) \cup
         {Append(s, c) : s \in {t \in SeqsUpTo(n - 1) : Len(t) = n - 1}, c \in Chars}

Names == SeqsUpTo(MaxNameLen)

\* ------------------------------------------------------- program constants
\* main.rs:43  "[::1]:50052".parse().unwrap()
addr == "[::1]:50052"

\* an address other than the configured one (only a faulty bind would use it)
OtherAddr == "[::1]:0"

\* exit status of a Rust process whose main thread panicked
PanicExitCode == 101

\* main.rs:38
HelloWorldHtml == "<h1>Hello, World!</h1>"

\* main.rs:30  the format string of format!("Hello {}!", ..)
HelloTemplate == <<"H", "e", "l", "l", "o", " ", "{", "}", "!">>

\* paths
RootPath == << >>
GreeterName == "helloworld.Greeter"
SayHelloPath == <<GreeterName, "SayHello">>
OtherMethodPath == <<GreeterName, "SayGoodbye">>
OtherServicePath == <<"helloworld.Farewell", "SayHello">>
ReflectionPath == <<"grpc.reflection.v1alpha.ServerReflection", "ServerReflectionInfo">>
FooPath == <<"foo">>

\* ------------------------------------------------------------- requests
\* The body of a request: no body at all, bytes that are not a valid frame,
\* or one frame holding a HelloRequest whose name field is present or absent.
NoBody == [kind |-> "none", has_name |-> FALSE, name |-> << >>]
MalformedBody == [kind |-> "malformed", has_name |-> FALSE, name |-> << >>]
AbsentNameBody == [kind |-> "message", has_name |-> FALSE, name |-> << >>]
NameBody(n) == [kind |-> "message", has_name |-> TRUE, name |-> n]

HelloBodies == {NoBody, MalformedBody, AbsentNameBody} \cup {NameBody(n) : n \in Names}

RpcRequests ==
    {[method |-> "POST", path |-> SayHelloPath, query |-> "", headers |-> {}, body |-> b] :
        b \in HelloBodies}
    \cup
    {[method |-> "POST", path |-> p, query |-> "", headers |-> {}, body |-> b] :
        p \in {OtherMethodPath, OtherServicePath, ReflectionPath},
        b \in {MalformedBody, AbsentNameBody}}

HttpRequests ==
    {[method |-> m, path |-> p, query |-> "", headers |-> {}, body |-> NoBody] :
        m \in {"GET", "HEAD", "POST"}, p \in {RootPath, FooPath}}
    \cup
    {[method |-> "GET", path |-> RootPath, query |-> "x=1", headers |-> {}, body |-> NoBody],
     [method |-> "GET", path |-> RootPath, query |-> "", headers |-> {"x-extra"}, body |-> NoBody]}

Requests == RpcRequests \cup HttpRequests

NullRequest == [method |-> "", path |-> << >>, query |-> "", headers |-> {}, body |-> NoBody]

\* ------------------------------------------------------------ responses
\* status: the HTTP status; grpc_status: the grpc-status header ("" when the
\* response carries none); body: a plain HTTP body; frames: the gRPC
\* messages of the body.
NullResponse ==
    [status |-> 0, content_type |-> "", grpc_status |-> "", body |-> "", frames |-> << >>]

\* ------------------------------------------------------------------ state
VARIABLES
    pc,          \* position of main: "start", "built", "serving", "exited"
    addrInUse,   \* environment: the configured address is held by someone else
    router,      \* the composed axum::Router of main.rs:46-49
    bound,       \* addresses this process has bound
    exitCode,    \* exit status once pc = "exited"
    stdout,      \* number of lines printed by say_hello
    conns        \* the requests in flight, one slot each

vars == <<pc, addrInUse, router, bound, exitCode, stdout, conns>>

Slots == 1 .. MaxConn

IdleConn == [pc |-> "idle", req |-> NullRequest, targets |-> {}, resp |-> NullResponse]

\* axum::Router::new(): no routes, axum's own 404 fallback
EmptyRouter == [routes |-> {}, fallback |-> [endpoint |-> "not_found", side |-> "http"]]


\* ------------------------------------------------------- pure functions
\* format!(template, arg) for a template with "{}" placeholders: the text of
\* the template with each "{}" replaced by the Display form of arg (for a
\* String, its characters unchanged).
RECURSIVE Format(_, _)
Format(template, arg) ==
    IF template = << >> THEN << >>
    ELSE IF Len(template) >= 2 /\ template[1] = "{" /\ template[2] = "}"
         THEN arg \o Format(SubSeq(template, 3, Len(template)), arg)
         ELSE <<template[1]>> \o Format(Tail(template), arg)

\* Decoding of the request body into a HelloRequest (generated by
\* tonic::include_proto!): a missing body or a malformed frame is an error, a
\* name field absent from the message decodes to the empty string.
decode(body) ==
    IF body.kind = "message"
    THEN [ok |-> TRUE, request |-> [name |-> IF body.has_name THEN body.name ELSE << >>]]
    ELSE [ok |-> FALSE, request |-> [name |-> << >>]]

\* say_hello with a validation it does not have: an empty name is refused
say_hello_validating(request) ==
    IF request.name = << >>
    THEN [ok |-> FALSE, reply |-> [message |-> << >>], code |-> "InvalidArgument"]
    ELSE [ok |-> TRUE, reply |-> [message |-> Format(HelloTemplate, request.name)],
          code |-> "Ok"]

\* say_hello with a memory it does not have: it greets differently once it
\* has printed a line
say_hello_counting(request) ==
    [ok |-> TRUE,
     reply |-> [message |-> Format(HelloTemplate, request.name)
                            \o (IF stdout > 0 THEN <<"!">> ELSE << >>)],
     code |-> "Ok"]

\* MyGreeter::say_hello.  MyGreeter has no fields, so the result depends on
\* the request only.  Result<Response<HelloReply>, Status> is a record: ok,
\* the reply when ok, the status code otherwise.
say_hello(request) ==
    [ok |-> TRUE, reply |-> [message |-> Format(HelloTemplate, request.name)], code |-> "Ok"]

\* Html(..) into a response
Html(text) ==
    [status |-> 200, content_type |-> "text/html; charset=utf-8", grpc_status |-> "",
     body |-> text, frames |-> << >>]

\* handler returning the text without its markup
handler_plain == Html("Hello, World!")

\* handler()
handler == Html(HelloWorldHtml)

\* a gRPC response that carries only a status (tonic sends it on HTTP 200)
GrpcStatus(code) ==
    [status |-> 200, content_type |-> "application/grpc", grpc_status |-> code,
     body |-> "", frames |-> << >>]

\* a successful unary gRPC response
GrpcReply(reply) ==
    [status |-> 200, content_type |-> "application/grpc", grpc_status |-> "Ok",
     body |-> "", frames |-> <<reply>>]

\* tonic's unary call of say_hello: decode, call, encode.  A body that does
\* not decode is answered with status Internal and say_hello is not called.
unary(body) ==
    LET d == decode(body) IN
    IF ~d.ok THEN GrpcStatus("Internal")
    ELSE LET r == say_hello(d.request) IN
         IF r.ok THEN GrpcReply(r.reply) ELSE GrpcStatus(r.code)

\* say_hello runs (and prints its line) exactly when the body decodes
CallsSayHello(endpoint, req) ==
    endpoint = "GreeterServer" /\ req.path = SayHelloPath /\ decode(req.body).ok

\* GreeterServer::call with a fallback: every method of the service is
\* answered by say_hello
GreeterServer_fallback(req) == unary(req.body)

\* GreeterServer::call: exact match on the path, anything else Unimplemented
GreeterServer(req) ==
    IF req.path = SayHelloPath THEN unary(req.body) ELSE GrpcStatus("Unimplemented")

\* get(handler): GET runs the handler, HEAD runs it and drops the body, every
\* other method is 405 Method Not Allowed
get_handler(req) ==
    IF req.method = "GET" THEN handler
    ELSE IF req.method = "HEAD" THEN [handler EXCEPT !.body = ""]
    ELSE [status |-> 405, content_type |-> "", grpc_status |-> "", body |-> "",
          frames |-> << >>]

\* the response of an endpoint of the router
call(endpoint, req) ==
    IF endpoint = "GreeterServer" THEN GreeterServer(req)
    ELSE IF endpoint = "get(handler)" THEN get_handler(req)
    ELSE IF endpoint = "unimplemented" THEN GrpcStatus("Unimplemented")
    ELSE [status |-> 404, content_type |-> "", grpc_status |-> "", body |-> "",
          frames |-> << >>]

\* ------------------------------------------------------------ the router
\* A route pattern matches a path segment by segment; a last segment "*rest"
\* matches one or more remaining segments.  The query is not part of the path.
PathMatches(pattern, path) ==
    IF pattern # << >> /\ pattern[Len(pattern)] = "*rest"
    THEN /\ Len(path) >= Len(pattern)
         /\ SubSeq(path, 1, Len(pattern) - 1) = SubSeq(pattern, 1, Len(pattern) - 1)
    ELSE path = pattern

\* tonic_server::builder().add_service(GreeterServer::new(greeter)).into_router():
\* the service under /helloworld.Greeter/*rest, tonic's "unimplemented" as
\* the fallback of the router
into_router ==
    [routes |-> {[pattern |-> <<GreeterName, "*rest">>, endpoint |-> "GreeterServer",
                  side |-> "rpc"]},
     fallback |-> [endpoint |-> "unimplemented", side |-> "rpc"]]

\* Router::route that registers the method router as a catch-all
route_catch_all(r, pattern, endpoint) ==
    [r EXCEPT !.routes = @ \cup {[pattern |-> pattern \o <<"*rest">>, endpoint |-> endpoint,
                                  side |-> "http"]}]

\* Router::route(path, method_router)
route(r, pattern, endpoint) ==
    [r EXCEPT !.routes = @ \cup {[pattern |-> pattern, endpoint |-> endpoint, side |-> "http"]}]

\* the router main builds
BuiltRouter == route(into_router, RootPath, "get(handler)")

\* the endpoints a request is handed to: the routes whose pattern matches its
\* path, the fallback when none does
Dispatch(r, req) ==
    LET matched == {e \in r.routes : PathMatches(e.pattern, req.path)} IN
    IF matched = {} THEN {[endpoint |-> r.fallback.endpoint, side |-> r.fallback.side]}
    ELSE {[endpoint |-> e.endpoint, side |-> e.side] : e \in matched}

\* --------------------------------------------------------------- startup
\* bind that takes another address when the configured one is in use
bind_elsewhere(a) ==
    [ok |-> TRUE, local |-> IF addrInUse THEN {OtherAddr} ELSE {a}]

\* axum::Server::bind(&addr): the listener on a, or a panic when a cannot be
\* bound
bind(a) ==
    IF addrInUse THEN [ok |-> FALSE, local |-> {}] ELSE [ok |-> TRUE, local |-> {a}]

\* serve(..) whose future fails, and takes the process down, when a request
\* could not be decoded
ServeAfter_fatal(resp) == IF resp.grpc_status = "Internal" THEN "exited" ELSE "serving"

\* what serve(..).await does after a request was answered with resp: request
\* and connection errors stay with their connection, the future does not
\* complete
ServeAfter(resp) == "serving"

\* handlers that read the request from one buffer shared by all requests in
\* flight
request_of_shared(i) ==
    conns[CHOOSE j \in Slots : conns[j].pc = "accepted" /\
                               \A k \in Slots : conns[k].pc = "accepted" => j <= k].req

\* the request the handler invoked for slot i receives
request_of(i) == conns[i].req

Init ==
    /\ pc = "start"
    /\ addrInUse \in BOOLEAN
    /\ router = EmptyRouter
    /\ bound = {}
    /\ exitCode = 0
    /\ stdout = 0
    /\ conns = [i \in Slots |-> IdleConn]

\* main.rs:43-49
BuildRouter ==
    /\ pc = "start"
    /\ pc' = "built"
    /\ router' = BuiltRouter
    /\ UNCHANGED <<addrInUse, bound, exitCode, stdout, conns>>

\* main.rs:50-53, the address is free
BindOk ==
    /\ pc = "built"
    /\ bind(addr).ok
    /\ bound' = bind(addr).local
    /\ pc' = "serving"
    /\ UNCHANGED <<addrInUse, router, exitCode, stdout, conns>>

\* main.rs:50, the address cannot be bound: bind panics, the process exits
BindPanic ==
    /\ pc = "built"
    /\ ~bind(addr).ok
    /\ pc' = "exited"
    /\ exitCode' = PanicExitCode
    /\ UNCHANGED <<addrInUse, router, bound, stdout, conns>>

Pending == Cardinality({i \in Slots : conns[i].pc = "accepted"})

\* a request arrives on the bound address
Accept(i) ==
    /\ pc = "serving"
    /\ conns[i].pc = "idle"
    /\ stdout + Pending < MaxLogged
    /\ \E r \in Requests : conns' = [conns EXCEPT ![i] = [IdleConn EXCEPT !.pc = "accepted", !.req = r]]
    /\ UNCHANGED <<pc, addrInUse, router, bound, exitCode, stdout>>

\* the router dispatches the request of slot i and the endpoint answers it
Serve(i) ==
    /\ pc = "serving"
    /\ conns[i].pc = "accepted"
    /\ LET req == request_of(i)
           targets == Dispatch(router, req)
           t == CHOOSE x \in targets : TRUE
           resp == call(t.endpoint, req)
       IN /\ conns' = [conns EXCEPT ![i] = [@ EXCEPT !.pc = "responded", !.targets = targets,
                                                     !.resp = resp]]
          /\ stdout' = IF CallsSayHello(t.endpoint, req) THEN stdout + 1 ELSE stdout
          /\ pc' = ServeAfter(resp)
          /\ exitCode' = IF ServeAfter(resp) = "exited" THEN PanicExitCode ELSE exitCode
    /\ UNCHANGED <<addrInUse, router, bound>>

\* the response has been sent, the request is dropped
Close(i) ==
    /\ conns[i].pc = "responded"
    /\ conns' = [conns EXCEPT ![i] = IdleConn]
    /\ UNCHANGED <<pc, addrInUse, router, bound, exitCode, stdout>>

Next ==
    \/ BuildRouter
    \/ BindOk
    \/ BindPanic
    \/ \E i \in Slots : Accept(i)
    \/ \E i \in Slots : Serve(i)
    \/ \E i \in Slots : Close(i)

Spec == Init /\ [][Next]_vars

TypeOK ==
    /\ pc \in {"start", "built", "serving", "exited"}
    /\ bound \subseteq {addr, OtherAddr}
    /\ stdout \in 0 .. MaxLogged
    /\ \A i \in Slots : conns[i].pc \in {"idle", "accepted", "responded"}


\* ----------------------------------------------------------- properties
Responded(i) == conns[i].pc = "responded"

\* a SayHello call whose body is a well-formed HelloRequest
IsSayHello(req) == req.path = SayHelloPath /\ req.body.kind = "message"

\* the name a well-formed SayHello call carries ("" when the field is absent)
NameIn(req) == IF req.body.has_name THEN req.body.name ELSE << >>

Greeting(s) == <<"H", "e", "l", "l", "o", " ">> \o s \o <<"!">>

\* C1: every SayHello call with name s (the empty name and the absent name
\* included) is answered with status Ok and the one reply whose message is
\* "Hello " + s + "!".
Thm_C1 ==
    \A i \in Slots :
        (Responded(i) /\ IsSayHello(conns[i].req)) =>
            /\ conns[i].resp.grpc_status = "Ok"
            /\ conns[i].resp.frames = <<[message |-> Greeting(NameIn(conns[i].req))]>>

Wit_C1 ==
    /\ \E i \in Slots :
        /\ Responded(i)
        /\ conns[i].req.path = SayHelloPath
        /\ conns[i].req.body = NameBody(<<"A">>)
        /\ conns[i].resp.frames = <<[message |-> <<"H", "e", "l", "l", "o", " ", "A", "!">>]>>
    /\ \E j \in Slots :
        /\ Responded(j)
        /\ conns[j].req.path = SayHelloPath
        /\ conns[j].req.body = AbsentNameBody
        /\ conns[j].resp.frames = <<[message |-> <<"H", "e", "l", "l", "o", " ", "!">>]>>

\* C2: every GET of "/" is answered with status 200 and the body
\* <h1>Hello, World!</h1>, whatever its query and headers and whatever was
\* served before.
Thm_C2 ==
    \A i \in Slots :
        (Responded(i) /\ conns[i].req.method = "GET" /\ conns[i].req.path = RootPath) =>
            /\ conns[i].resp.status = 200
            /\ conns[i].resp.body = "<h1>Hello, World!</h1>"

Wit_C2 ==
    /\ stdout > 0
    /\ \E i, j \in Slots :
        /\ Responded(i) /\ Responded(j)
        /\ conns[i].req.method = "GET" /\ conns[i].req.path = RootPath
        /\ conns[i].req.query # ""
        /\ conns[j].req.method = "GET" /\ conns[j].req.path = RootPath
        /\ conns[j].req.headers # {}
        /\ conns[i].resp.status = 200 /\ conns[j].resp.status = 200

\* C3: of two SayHello calls in flight together with different names, each
\* is answered with the greeting of its own name and not with the other's.
Thm_C3 ==
    \A i, j \in Slots :
        (/\ i # j
         /\ IsSayHello(conns[i].req) /\ IsSayHello(conns[j].req)
         /\ NameIn(conns[i].req) # NameIn(conns[j].req)
         /\ Responded(i)) =>
            /\ conns[i].resp.frames = <<[message |-> Greeting(NameIn(conns[i].req))]>>
            /\ conns[i].resp.frames # <<[message |-> Greeting(NameIn(conns[j].req))]>>

\* B is answered while A, accepted, is still waiting for its handler
Wit_C3 ==
    \E i, j \in Slots :
        /\ i # j
        /\ conns[i].pc = "accepted" /\ conns[i].req.path = SayHelloPath
        /\ conns[i].req.body = NameBody(<<"A">>)
        /\ Responded(j) /\ conns[j].req.path = SayHelloPath
        /\ conns[j].req.body = NameBody(<<"B">>)
        /\ conns[j].resp.frames = <<[message |-> <<"H", "e", "l", "l", "o", " ", "B", "!">>]>>

\* an HTTP request that the one route GET "/" does not match
Unrouted(req) == req \in HttpRequests /\ ~(req.method = "GET" /\ req.path = RootPath)

\* C4: an HTTP request that matches no route is answered 404 Not Found and
\* is not handed to the RPC side of the router.
Claim_C4 ==
    \A i \in Slots :
        (Responded(i) /\ Unrouted(conns[i].req)) =>
            /\ conns[i].resp.status = 404
            /\ \A t \in conns[i].targets : t.side # "rpc"

\* an RPC call to anything but helloworld.Greeter/SayHello
Unregistered(req) == req \in RpcRequests /\ req.path # SayHelloPath

\* C5 as stated: a call to an unregistered (service, method) is answered
\* with the status NotFound, without a reply from say_hello, without a decode
\* error, and the server keeps serving.
Claim_C5 ==
    \A i \in Slots :
        (Responded(i) /\ Unregistered(conns[i].req)) =>
            /\ conns[i].resp.grpc_status = "NotFound"
            /\ conns[i].resp.frames = << >>
            /\ conns[i].resp.grpc_status # "Internal"
            /\ pc = "serving"

\* C5 amended: a call to an unregistered (service, method) is answered with
\* the status Unimplemented, without a reply from say_hello, without a decode
\* error, and the server keeps serving.
Thm_C5 ==
    \A i \in Slots :
        (Responded(i) /\ Unregistered(conns[i].req)) =>
            /\ conns[i].resp.grpc_status = "Unimplemented"
            /\ conns[i].resp.frames = << >>
            /\ conns[i].resp.grpc_status # "Internal"
            /\ pc = "serving"

Wit_C5 ==
    \E i, j \in Slots :
        /\ Responded(i) /\ conns[i].req.path = OtherMethodPath
        /\ conns[i].req.body = AbsentNameBody
        /\ conns[i].resp.grpc_status = "Unimplemented"
        /\ Responded(j) /\ conns[j].req.path = OtherServicePath
        /\ conns[j].req.body = MalformedBody
        /\ conns[j].resp.grpc_status = "Unimplemented"

\* C6: when the configured address cannot be bound, the process goes from
\* its startup straight to exit with a non-zero status: it never serves,
\* binds no address and accepts no request.
Thm_C6 ==
    addrInUse =>
        /\ pc # "serving"
        /\ bound = {}
        /\ \A i \in Slots : conns[i].pc = "idle"
        /\ pc \notin {"start", "built"} => (pc = "exited" /\ exitCode # 0)

Wit_C6 == addrInUse /\ pc = "exited" /\ exitCode = 101 /\ router = BuiltRouter

\* a SayHello call whose body is not a well-formed frame
IsMalformed(req) == req.path = SayHelloPath /\ req.body.kind = "malformed"

\* C7: a malformed frame fails its own request only: that request is
\* answered with an error status, the process that started serving is still
\* serving, and the well-formed SayHello and GET / requests are answered
\* correctly.
Thm_C7 ==
    /\ bound # {} => (pc = "serving" /\ exitCode = 0)
    /\ \A i \in Slots :
        (Responded(i) /\ IsMalformed(conns[i].req)) =>
            /\ conns[i].resp.grpc_status = "Internal"
            /\ conns[i].resp.frames = << >>
            /\ \A j \in Slots :
                /\ (Responded(j) /\ IsSayHello(conns[j].req)) =>
                       conns[j].resp = GrpcReply([message |-> Greeting(NameIn(conns[j].req))])
                /\ (Responded(j) /\ conns[j].req.method = "GET" /\ conns[j].req.path = RootPath) =>
                       conns[j].resp.body = "<h1>Hello, World!</h1>"

Wit_C7 ==
    /\ pc = "serving"
    /\ \E i, j \in Slots :
        /\ Responded(i) /\ IsMalformed(conns[i].req)
        /\ conns[i].resp.grpc_status = "Internal"
        /\ Responded(j) /\ conns[j].req.path = SayHelloPath
        /\ conns[j].req.body = NameBody(<<"B">>)
        /\ conns[j].resp.grpc_status = "Ok"

ToRpc(i) == \E t \in conns[i].targets : t.side = "rpc"
ToHttp(i) == \E t \in conns[i].targets : t.side = "http"

\* C9: the process binds at most one address, the configured one while it
\* serves, and every request it has dispatched went to exactly one endpoint,
\* on the RPC side or on the HTTP side, not both and not neither.
Thm_C9 ==
    /\ Cardinality(bound) <= 1
    /\ pc = "serving" => bound = {"[::1]:50052"}
    /\ \A i \in Slots :
        Responded(i) =>
            /\ Cardinality(conns[i].targets) = 1
            /\ ToRpc(i) # ToHttp(i)
            /\ ToHttp(i) <=> conns[i].req.path = RootPath

Wit_C9 ==
    /\ bound = {"[::1]:50052"}
    /\ \E i, j \in Slots :
        /\ Responded(i) /\ conns[i].req.path = SayHelloPath
        /\ conns[i].targets = {[endpoint |-> "GreeterServer", side |-> "rpc"]}
        /\ Responded(j) /\ conns[j].req.path = RootPath
        /\ conns[j].targets = {[endpoint |-> "get(handler)", side |-> "http"]}

\* equal requests have equal responses
SameRequestSameResponse ==
    \A i, j \in Slots :
        (Responded(i) /\ Responded(j) /\ conns[i].req = conns[j].req) =>
            conns[i].resp = conns[j].resp

\* C10: once the server serves, no step changes the router, and two equal
\* requests are answered alike whatever was served between them.
Thm_C10 ==
    [][/\ pc = "serving" => router' = router
       /\ SameRequestSameResponse']_vars

\* the same SayHello call answered twice, before and after a line was printed
Wit_C10 ==
    /\ stdout = 2
    /\ \E i, j \in Slots :
        /\ i # j
        /\ Responded(i) /\ Responded(j)
        /\ conns[i].req = conns[j].req
        /\ conns[i].req.path = SayHelloPath /\ conns[i].req.body = NameBody(<<"A">>)
        /\ conns[i].resp = conns[j].resp
        /\ conns[i].resp.grpc_status = "Ok"

====
